---- MODULE Spec2Model ----
(***************************************************************************)
(* Daily narrative generation pipeline of local-story-weaver:              *)
(*   - news ingestion   (app/services/news_service.py)                     *)
(*   - news selection   (NewsService.get_news_for_date)                    *)
(*   - chapter generation controller (app/api/v1/routes_story.py)          *)
(* Dates are day ordinals inside one month; timestamps are hours           *)
(* (day * 24 + hour).  Text is a sequence of one-character strings.        *)
(* An optional value is a sequence of length 0 or 1, or a set of size <= 1.*)
(***************************************************************************)
EXTENDS Integers, Sequences, FiniteSets, TLC

\* ------------------------------------------------------------------ bounds
MaxDay == 9            \* last calendar day the wall clock reaches
MaxRuns == 2           \* ingestion runs started in one behaviour
MaxNewsItems == 2      \* largest configured max_news_items_per_story
MaxFeedLen == 2        \* items of a feed document handed to the filter on its own

\* ------------------------------------------------------- program constants
LookbackDays == 7      \* _get_recently_used_news_ids(days=7)
PrefetchLimit == 50    \* .limit(50) in get_news_for_date
FeedCap == 10          \* articles[:10]
HeadlineMax == 500     \* title[:500]
AuthorMax == 200       \* author[:200]
SummaryMax == 500      \* len(description) > 500
SummaryCut == 497      \* description[:497] + "..."

\* ------------------------------------------------------------ text helpers
UpperAlpha == <<"A","B","C","D","E","F","G","H","I","J","K","L","M",
                "N","O","P","Q","R","S","T","U","V","W","X","Y","Z">>
LowerAlpha == <<"a","b","c","d","e","f","g","h","i","j","k","l","m",
                "n","o","p","q","r","s","t","u","v","w","x","y","z">>

LowerChar(c) ==
    IF \E i \in 1..Len(UpperAlpha) : UpperAlpha[i] = c
    THEN LowerAlpha[CHOOSE i \in 1..Len(UpperAlpha) : UpperAlpha[i] = c]
    ELSE c

\* str.lower()
Lower(s) ==
    LET low[i \in 0..Len(s)] ==
            IF i = 0 THEN <<>> ELSE Append(low[i - 1], LowerChar(s[i]))
    IN  low[Len(s)]

\* [x.lower() for x in list]
LowerAll(list) ==
    LET low[i \in 0..Len(list)] ==
            IF i = 0 THEN <<>> ELSE Append(low[i - 1], Lower(list[i]))
    IN  low[Len(list)]

\* needle in hay (substring test on str)
Contains(needle, hay) ==
    \E i \in 1..(Len(hay) - Len(needle) + 1) :
        SubSeq(hay, i, i + Len(needle) - 1) = needle

\* s[:n]
Prefix(s, n) == SubSeq(s, 1, IF Len(s) < n THEN Len(s) ELSE n)

\* x in list
InList(x, list) == \E i \in 1..Len(list) : list[i] = x

ipswich == <<"i","p","s","w","i","c","h">>

skip_keywords ==
  << <<"o","b","i","t","u","a","r","y">>,
     <<"o","b","i","t","u","a","r","i","e","s">>,
     <<"d","e","a","t","h">>,
     <<"d","i","e","s">>,
     <<"d","i","e","d">>,
     <<"m","e","m","o","r","i","a","l">>,
     <<"f","u","n","e","r","a","l">>,
     <<"p","a","s","s","e","d"," ","a","w","a","y">>,
     <<"i","n"," ","m","e","m","o","r","i","a","m">>,
     <<"p","o","l","i","c","e"," ","l","o","g">>,
     <<"a","r","r","e","s","t">>,
     <<"c","h","a","r","g","e","d"," ","w","i","t","h">>,
     <<"f","a","t","a","l">>,
     <<"c","a","m","p","a","i","g","n">>,
     <<"e","l","e","c","t","i","o","n">>,
     <<"c","a","n","d","i","d","a","t","e">>,
     <<"e","n","d","o","r","s","e","m","e","n","t">>,
     <<"e","n","d","o","r","s","e","s">>,
     <<"d","e","m","o","c","r","a","t">>,
     <<"r","e","p","u","b","l","i","c","a","n">>,
     <<"c","o","n","g","r","e","s","s","i","o","n","a","l">>,
     <<"s","e","n","a","t","o","r">>,
     <<"g","o","v","e","r","n","o","r">>,
     <<"b","a","l","l","o","t">>,
     <<"v","o","t","e">>,
     <<"v","o","t","i","n","g">>,
     <<"p","r","i","m","a","r","y">>,
     <<"c","a","u","c","u","s">>,
     <<"p","o","l","i","t","i","c","a","l">> >>

skip_categories ==
  << <<"o","b","i","t","u","a","r","i","e","s">>,
     <<"p","o","l","i","c","e">>,
     <<"c","r","i","m","e">>,
     <<"p","o","l","i","t","i","c","s">>,
     <<"e","l","e","c","t","i","o","n">>,
     <<"e","l","e","c","t","i","o","n","s">> >>

\* ------------------------------------------------------------ dates, times
\* date(year, month, day) succeeds for these day numbers of the month
ValidDays == 1..30

\* datetime(year, month, day, 12, 0, 0)
Noon(d) == d * 24 + 12

\* datetime.date()
DateOf(ts) == ts \div 24

\* re.search(r'/(\d{4})/(\d{2})/(\d{2})/', url) followed by date(y, m, d):
\* a URL is [slug, seg]; seg is <<>> when the pattern does not match and
\* <<dd>> (two digits) when it does; the date exists only for a valid day.
_get_article_date_from_url(url) ==
    IF url.seg = <<>> THEN {}
    ELSE IF url.seg[1] \in ValidDays THEN {url.seg[1]} ELSE {}

\* ------------------------------------------------------------- feed inputs
TitleFair == <<"I","p","s","w","i","c","h"," ","f","a","i","r"," ","o","p","e","n","s">>
TitleFairUpd == <<"I","p","s","w","i","c","h"," ","f","a","i","r"," ","e","x","t","e","n","d","e","d">>
TitleMarket == <<"I","P","S","W","I","C","H"," ","m","a","r","k","e","t"," ","d","a","y">>
TitleLadies == <<"I","p","s","w","i","c","h"," ","l","a","d","i","e","s"," ","l","u","n","c","h">>
TitleRowley == <<"R","o","w","l","e","y"," ","r","o","a","d"," ","w","o","r","k">>
TitleFlats == <<"C","l","a","m"," ","f","l","a","t","s"," ","r","e","o","p","e","n">>
CatIpswich == <<"I","p","s","w","i","c","h">>
CatNews == <<"N","e","w","s">>
Ann == <<"A","n","n">>
Bob == <<"B","o","b">>
DescFair == <<"R","i","d","e","s">>

UrlFair == [slug |-> "fair", seg |-> <<1>>]
UrlMarket == [slug |-> "market", seg |-> <<>>]
UrlFlats == [slug |-> "flats", seg |-> <<2>>]
UrlLadies == [slug |-> "ladies", seg |-> <<2>>]
UrlRowley == [slug |-> "rowley", seg |-> <<1>>]

NoPubDate == <<>>
PubDate(day, hour) == <<[ok |-> TRUE, at |-> day * 24 + hour]>>

ItemFair ==
    [title |-> TitleFair, categories |-> <<CatNews>>, link |-> <<UrlFair>>,
     description |-> DescFair, creator |-> Ann, pubDate |-> NoPubDate]
ItemFairUpd ==
    [title |-> TitleFairUpd, categories |-> <<CatNews>>, link |-> <<UrlFair>>,
     description |-> <<>>, creator |-> <<>>, pubDate |-> PubDate(2, 7)]
ItemMarket ==
    [title |-> TitleMarket, categories |-> <<>>, link |-> <<UrlMarket>>,
     description |-> <<>>, creator |-> Bob, pubDate |-> PubDate(2, 9)]
ItemFlats ==
    [title |-> TitleFlats, categories |-> <<CatNews, CatIpswich>>, link |-> <<UrlFlats>>,
     description |-> <<>>, creator |-> <<>>, pubDate |-> NoPubDate]
ItemLadies ==
    [title |-> TitleLadies, categories |-> <<CatIpswich>>, link |-> <<UrlLadies>>,
     description |-> <<>>, creator |-> Ann, pubDate |-> NoPubDate]
ItemRowley ==
    [title |-> TitleRowley, categories |-> <<CatNews>>, link |-> <<UrlRowley>>,
     description |-> <<>>, creator |-> Bob, pubDate |-> NoPubDate]

\* more items, for the filter on its own
TitleObit == <<"I","p","s","w","i","c","h"," ","n","e","i","g","h","b","o","r","s">>
TitleVote == <<"I","p","s","w","i","c","h"," ","V","O","T","E"," ","t","a","l","l","y">>
TitleDocks == <<"N","e","w"," ","d","o","c","k","s">>
CatObituaries == <<"O","b","i","t","u","a","r","i","e","s">>
CatIpswichNews == <<"I","p","s","w","i","c","h"," ","N","e","w","s">>
UrlObit == [slug |-> "obit", seg |-> <<2>>]
UrlVote == [slug |-> "vote", seg |-> <<2>>]
UrlDocks == [slug |-> "docks", seg |-> <<2>>]
UrlBadDay == [slug |-> "badday", seg |-> <<31>>]
BadPubDate == <<[ok |-> FALSE, at |-> 0]>>

\* locale-relevant, fresh, in an excluded category
ItemObit ==
    [title |-> TitleObit, categories |-> <<CatIpswich, CatObituaries>>, link |-> <<UrlObit>>,
     description |-> <<>>, creator |-> <<>>, pubDate |-> NoPubDate]
\* a keyword in upper case in the title
ItemVote ==
    [title |-> TitleVote, categories |-> <<CatNews>>, link |-> <<UrlVote>>,
     description |-> <<>>, creator |-> <<>>, pubDate |-> NoPubDate]
\* the locale inside a longer category tag only
ItemDocks ==
    [title |-> TitleDocks, categories |-> <<CatIpswichNews>>, link |-> <<UrlDocks>>,
     description |-> <<>>, creator |-> <<>>, pubDate |-> NoPubDate]
\* no <link>
ItemNoLink ==
    [title |-> TitleFair, categories |-> <<CatIpswich>>, link |-> <<>>,
     description |-> <<>>, creator |-> Bob, pubDate |-> PubDate(2, 8)]
\* a link whose date segment is no date, and a pubDate
ItemBadDay ==
    [title |-> TitleMarket, categories |-> <<>>, link |-> <<UrlBadDay>>,
     description |-> <<>>, creator |-> <<>>, pubDate |-> PubDate(1, 20)]
\* no date in the link and a pubDate that does not parse
ItemNoDate ==
    [title |-> TitleFlats, categories |-> <<CatIpswich>>, link |-> <<UrlMarket>>,
     description |-> <<>>, creator |-> <<>>, pubDate |-> BadPubDate]

FeedA == <<ItemFair, ItemRowley, ItemMarket>>
FeedB == <<ItemFlats, ItemLadies, ItemFairUpd>>
FeedC == <<ItemFair, ItemFairUpd>>

\* feed documents the source may serve
Feeds == {FeedA, FeedB, FeedC}

\* items of the feed documents the filter is run on
FilterItems ==
    {ItemFair, ItemFairUpd, ItemMarket, ItemFlats, ItemLadies, ItemRowley,
     ItemObit, ItemVote, ItemDocks, ItemNoLink, ItemBadDay, ItemNoDate}

\* a document with one acceptable item more than the cap, the newest last
LongFeed == [i \in 1..(FeedCap + 1) |-> IF i <= FeedCap THEN ItemFair ELSE ItemFlats]

\* every document of up to MaxFeedLen items, and the long one
FilterFeeds ==
    UNION {[1..n -> FilterItems] : n \in 0..MaxFeedLen} \cup {LongFeed}

\* -------------------------------------------------- NewsService: the filter
\* the locale test passing every item
is_ipswich_Always(categories, title) == TRUE

\* is_ipswich = "ipswich" in categories or "ipswich" in title.lower()
is_ipswich(categories, title) ==
    InList(ipswich, categories) \/ Contains(ipswich, Lower(title))

\* the keyword test on the title as written, without lower()
keyword_hit_CaseSensitive(title) ==
    \E k \in 1..Len(skip_keywords) : Contains(skip_keywords[k], title)

\* any(keyword in title_lower for keyword in skip_keywords)
keyword_hit(title) ==
    \E k \in 1..Len(skip_keywords) : Contains(skip_keywords[k], Lower(title))

\* any(keyword in categories for keyword in skip_categories)
category_hit(categories) ==
    \E k \in 1..Len(skip_categories) : InList(skip_categories[k], categories)

\* the publish time taken from the feed's pubDate before the link is looked at
DerivePublishedAt_PubDateFirst(link, pubDate) ==
    LET url_date == IF link = <<>> THEN {} ELSE _get_article_date_from_url(link[1])
        pub_ok == pubDate # <<>> /\ pubDate[1].ok
    IN  IF pub_ok THEN <<pubDate[1].at>>
        ELSE IF url_date # {} THEN <<Noon(CHOOSE d \in url_date : TRUE)>> ELSE <<>>

\* published_at after both extraction attempts (news_service.py 152-174):
\* noon of the date in the link, else the feed's pubDate, else None (<<>>)
DerivePublishedAt(link, pubDate) ==
    LET url_date == IF link = <<>> THEN {} ELSE _get_article_date_from_url(link[1])
        pub_ok == pubDate # <<>> /\ pubDate[1].ok
    IN  IF url_date # {} THEN <<Noon(CHOOSE d \in url_date : TRUE)>>
        ELSE IF pub_ok THEN <<pubDate[1].at>> ELSE <<>>

\* One <item> of the feed: <<>> when skipped, <<article_data>> when accepted.
ParseItem(item, day_now) ==
    LET categories == LowerAll(item.categories)
        title == item.title
        link == item.link
        description == IF Len(item.description) > SummaryMax
                       THEN Prefix(item.description, SummaryCut) \o <<".",".",".">>
                       ELSE item.description
        author == item.creator
        published_at == DerivePublishedAt(link, item.pubDate)
        \* article_date is the date of published_at in both branches
        article_date == IF published_at = <<>> THEN {} ELSE {DateOf(published_at[1])}
        yesterday == day_now - 1
    IN  IF ~is_ipswich(categories, title) THEN <<>>
        ELSE IF keyword_hit(title) THEN <<>>
        ELSE IF category_hit(categories) THEN <<>>
        ELSE IF link = <<>> THEN <<>>
        ELSE IF article_date = {} \/ (\E d \in article_date : d < yesterday) THEN <<>>
        ELSE << [headline |-> Prefix(title, HeadlineMax),
                 summary |-> IF description # <<>> THEN description ELSE title,
                 article_url |-> link[1],
                 author |-> IF author # <<>> THEN Prefix(author, AuthorMax) ELSE <<>>,
                 published_at |-> published_at,
                 category_label |-> "Ipswich"] >>

\* ParseItem tabulated over the items and processing days
ParsedItemTable ==
    {<<item, d, ParseItem(item, d)>> : item \in FilterItems, d \in 1..(MaxDay + 1)}

ParsedItem(item, d) == (CHOOSE t \in ParsedItemTable : t[1] = item /\ t[2] = d)[3]

\* the for loop over soup.find_all("item"): accepted articles in feed order
ParseItems(items, day_now) ==
    LET articles[i \in 0..Len(items)] ==
            IF i = 0 THEN <<>> ELSE articles[i - 1] \o ParsedItem(items[i], day_now)
    IN  articles[Len(items)]

_parse_rss_feed(rss_content, day_now) == Prefix(ParseItems(rss_content, day_now), FeedCap)

\* _parse_rss_feed tabulated over the feed documents and processing days
ParsedTable == {<<f, d, _parse_rss_feed(f, d)>> : f \in Feeds, d \in 1..(MaxDay + 1)}

ParsedFeed(f, d) == (CHOOSE t \in ParsedTable : t[1] = f /\ t[2] = d)[3]

\* ------------------------------------------------- NewsService: the upsert
\* select(NewsItem).where(NewsItem.article_url == url) over what the session sees
LookupByUrl(view, url) == {n \in view : n.article_url = url}

\* the "if existing:" branch with the author assigned unconditionally
UpdatedItem_ClearsAuthor(existing, article_data, now) ==
    [existing EXCEPT
        !.headline = article_data.headline,
        !.summary = article_data.summary,
        !.author = article_data.author,
        !.published_at = article_data.published_at,
        !.fetched_at = now]

\* the "if existing:" branch of _upsert_news_item
UpdatedItem(existing, article_data, now) ==
    [existing EXCEPT
        !.headline = article_data.headline,
        !.summary = article_data.summary,
        !.author = IF article_data.author # <<>> THEN article_data.author ELSE @,
        !.published_at = IF article_data.published_at # <<>>
                         THEN article_data.published_at ELSE @,
        !.fetched_at = now]

\* the "else:" branch of _upsert_news_item
NewItem(article_data, id, now) ==
    [id |-> id,
     headline |-> article_data.headline,
     summary |-> article_data.summary,
     article_url |-> article_data.article_url,
     author |-> article_data.author,
     category_label |-> article_data.category_label,
     published_at |-> article_data.published_at,
     fetched_at |-> now]

\* self.db.add(news_item); await self.db.flush() on the news_items table:
\* the table has no uniqueness constraint on article_url, the insert succeeds
Flush(view, news_item) == view \cup {news_item}

\* _upsert_news_item replacing the row it finds by a new one
_upsert_news_item_ReplacesRow(view, article_data, now, nextId) ==
    [view |-> (view \ LookupByUrl(view, article_data.article_url))
                 \cup {NewItem(article_data, nextId, now)},
     ret |-> <<nextId>>, nextId |-> nextId + 1]

\* _upsert_news_item without the lookup by URL: every sighting becomes a row
_upsert_news_item_AlwaysInsert(view, article_data, now, nextId) ==
    [view |-> view \cup {NewItem(article_data, nextId, now)},
     ret |-> <<nextId>>, nextId |-> nextId + 1]

\* _upsert_news_item on the rows the session sees: the rows afterwards, the
\* id returned (<<>> for None) and the next free id.  scalar_one_or_none
\* raises on two matching rows; the except clause turns that into None.
_upsert_news_item(view, article_data, now, nextId) ==
    LET found == LookupByUrl(view, article_data.article_url)
    IN  IF Cardinality(found) > 1
        THEN [view |-> view, ret |-> <<>>, nextId |-> nextId]
        ELSE IF found # {}
        THEN LET existing == CHOOSE n \in found : TRUE
             IN  [view |-> (view \ {existing}) \cup {UpdatedItem(existing, article_data, now)},
                  ret |-> <<existing.id>>, nextId |-> nextId]
        ELSE [view |-> Flush(view, NewItem(article_data, nextId, now)),
              ret |-> <<nextId>>, nextId |-> nextId + 1]

\* the for loop of fetch_and_update_ipswich_news run without interruption
RECURSIVE UpsertAll(_, _, _, _, _)
UpsertAll(view, articles, now, nextId, updated_items) ==
    IF articles = <<>>
    THEN [view |-> view, updated_items |-> updated_items, nextId |-> nextId]
    ELSE LET r == _upsert_news_item(view, Head(articles), now, nextId)
         IN  UpsertAll(r.view, Tail(articles), now, r.nextId, updated_items \o r.ret)

\* ---------------------------------------------- NewsService: the selection
\* _get_recently_used_news_ids looking at the chapters of earlier days only
_get_recently_used_news_ids_BeforeToday(chapterRows, day_now) ==
    LET cutoff_date == day_now - LookbackDays
        rows == {c \in chapterRows : c.chapter_date >= cutoff_date /\ c.chapter_date < day_now}
    IN  UNION {{c.used_news_item_ids[i] : i \in 1..Len(c.used_news_item_ids)} : c \in rows}

\* _get_recently_used_news_ids: ids listed by chapters dated on or after
\* date.today() - days
_get_recently_used_news_ids(chapterRows, day_now) ==
    LET cutoff_date == day_now - LookbackDays
        rows == {c \in chapterRows : c.chapter_date >= cutoff_date}
    IN  UNION {{c.used_news_item_ids[i] : i \in 1..Len(c.used_news_item_ids)} : c \in rows}

\* sort key of order_by(desc(published_at)); NULL sorts first in descending order
SortKey(n) == IF n.published_at = <<>> THEN (MaxDay + 2) * 24 ELSE n.published_at[1]

\* select(NewsItem).order_by(desc(NewsItem.published_at)).limit(50): every
\* row order the database may answer with (rows of equal publish time come in
\* any order)
RECURSIVE SortedOrders(_)
SortedOrders(rows) ==
    IF rows = {} THEN {<<>>}
    ELSE LET first == {n \in rows : \A m \in rows : SortKey(n) >= SortKey(m)}
         IN  UNION {{<<n>> \o rest : rest \in SortedOrders(rows \ {n})} : n \in first}

PrefetchOrders(newsRows) == {Prefix(s, PrefetchLimit) : s \in SortedOrders(newsRows)}

\* the for loop of get_news_for_date with a window of the target date only
RECURSIVE MatchingItems_TargetDayOnly(_, _, _, _, _)
MatchingItems_TargetDayOnly(all_items, used_ids, target_date, limit, matching_items) ==
    IF all_items = <<>> THEN matching_items
    ELSE LET item == Head(all_items)
             article_date == _get_article_date_from_url(item.article_url)
         IN  IF item.id \in used_ids
             THEN MatchingItems_TargetDayOnly(Tail(all_items), used_ids, target_date, limit,
                                              matching_items)
             ELSE IF article_date \cap {target_date} # {}
             THEN LET appended == Append(matching_items, item)
                  IN  IF Len(appended) >= limit THEN appended
                      ELSE MatchingItems_TargetDayOnly(Tail(all_items), used_ids, target_date,
                                                       limit, appended)
             ELSE MatchingItems_TargetDayOnly(Tail(all_items), used_ids, target_date, limit,
                                              matching_items)

\* the for loop of get_news_for_date
RECURSIVE MatchingItems(_, _, _, _, _)
MatchingItems(all_items, used_ids, target_date, limit, matching_items) ==
    IF all_items = <<>> THEN matching_items
    ELSE LET item == Head(all_items)
             previous_day == target_date - 1
             article_date == _get_article_date_from_url(item.article_url)
         IN  IF item.id \in used_ids
             THEN MatchingItems(Tail(all_items), used_ids, target_date, limit, matching_items)
             ELSE IF article_date \cap {target_date, previous_day} # {}
             THEN LET appended == Append(matching_items, item)
                  IN  IF Len(appended) >= limit THEN appended
                      ELSE MatchingItems(Tail(all_items), used_ids, target_date, limit, appended)
             ELSE MatchingItems(Tail(all_items), used_ids, target_date, limit, matching_items)

\* get_news_for_date: the lists it may return
get_news_for_date(newsRows, chapterRows, day_now, target_date, limit) ==
    LET used_ids == _get_recently_used_news_ids(chapterRows, day_now)
    IN  {MatchingItems(all_items, used_ids, target_date, limit, <<>>) :
            all_items \in PrefetchOrders(newsRows)}

IdsOf(items) == [i \in 1..Len(items) |-> items[i].id]

\* ------------------------------------------------------- context, generator
\* weather / tide snapshot of a DayContext: a reading or the degraded marker
Snapshots == {"clear"}

\* ContextBuilder.build_context(date, include_news=True): the contexts it may
\* produce; news comes from get_news_for_date with max_news_items_per_story
build_context(newsRows, chapterRows, day_now, target_date, max_news) ==
    {[news |-> IdsOf(items), weather |-> w] :
        items \in get_news_for_date(newsRows, chapterRows, day_now, target_date, max_news),
        w \in Snapshots}

\* get_story_generator deciding on the API key alone
get_story_generator_IgnoresFlag(cfg) ==
    IF cfg.anthropic_api_key # <<>>
    THEN "LLMStoryGeneratorWithFallback"
    ELSE "TemplateStoryGenerator"

\* get_story_generator handing out the primary without the fallback wrapper
get_story_generator_BarePrimary(cfg) ==
    IF cfg.use_llm_for_stories /\ cfg.anthropic_api_key # <<>>
    THEN "LLMStoryGenerator"
    ELSE "TemplateStoryGenerator"

\* get_story_generator
get_story_generator(cfg) ==
    IF cfg.use_llm_for_stories /\ cfg.anthropic_api_key # <<>>
    THEN "LLMStoryGeneratorWithFallback"
    ELSE "TemplateStoryGenerator"

\* how a call of the model provider may end
PrimaryOutcomes == {"ok", "error", "timeout", "malformed"}

\* the marker of a generator call that raised instead of returning a story
Raised == [by |-> "raised", news |-> <<>>]

\* what a generator returns for a context: which producer wrote the text and
\* the news it was given.  The primary returns its text or raises; the
\* template generator always returns; the wrapper returns the primary's
\* text, and the template's on any failure of the primary
GeneratorOutputs(generator, context) ==
    LET template == [by |-> "template", news |-> context.news]
        primary(outcome) == IF outcome = "ok"
                            THEN [by |-> "llm", news |-> context.news]
                            ELSE Raised
    IN  IF generator = "TemplateStoryGenerator"
        THEN {template}
        ELSE IF generator = "LLMStoryGeneratorWithFallback"
        THEN {IF primary(outcome) = Raised THEN template ELSE primary(outcome) :
                 outcome \in PrimaryOutcomes}
        ELSE {primary(outcome) : outcome \in PrimaryOutcomes}

\* generate_story_for_date on a table without the chapter_date constraint:
\* a second writer adds a second row for the date
generate_story_for_date_NoConstraint(chapterRows, context, target_date, force_regenerate, story, nextId) ==
    LET created == [id |-> nextId, chapter_date |-> target_date, body |-> story,
                    weather_summary |-> context.weather,
                    used_news_item_ids |-> context.news]
    IN  [rows |-> chapterRows \cup {created}, chapter |-> {created},
         raised |-> FALSE, nextId |-> nextId + 1]

\* StoryEngine.generate_story_for_date followed by the commit: create the
\* chapter of the date, replace it in place under force_regenerate, or fail
\* on the chapter_date uniqueness constraint
generate_story_for_date(chapterRows, context, target_date, force_regenerate, story, nextId) ==
    LET existing == {c \in chapterRows : c.chapter_date = target_date}
        replaced == {[c EXCEPT !.body = story,
                               !.weather_summary = context.weather,
                               !.used_news_item_ids = context.news] : c \in existing}
        created == [id |-> nextId, chapter_date |-> target_date, body |-> story,
                    weather_summary |-> context.weather,
                    used_news_item_ids |-> context.news]
    IN  IF existing # {}
        THEN IF force_regenerate
             THEN [rows |-> (chapterRows \ existing) \cup replaced, chapter |-> replaced,
                   raised |-> FALSE, nextId |-> nextId]
             ELSE [rows |-> chapterRows, chapter |-> {}, raised |-> TRUE, nextId |-> nextId]
        ELSE [rows |-> chapterRows \cup {created}, chapter |-> {created},
              raised |-> FALSE, nextId |-> nextId + 1]

\* ---------------------------------------------------------------- the state
VARIABLES
    settings,        \* Settings: the configuration the process was started with
    today,           \* date.today()
    clock,           \* datetime.utcnow() of the latest ingestion run that got a feed body
    news,            \* committed rows of news_items
    nextNewsId,      \* the id sequence of news_items
    chapters,        \* committed rows of story_chapters
    nextChapterId,   \* the id sequence of story_chapters
    gen,             \* per request slot: the generate_today_story call in flight
    ingest,          \* per worker: the fetch_and_update_ipswich_news call in flight
    response         \* latest answer of generate_today_story: outcome, date, id of the chapter in it

vars == <<settings, today, clock, news, nextNewsId, chapters, nextChapterId, gen, ingest,
          response>>

Reqs == {1, 2}

Workers == {1, 2}

\* target_date parameter: absent (<<>>) or an explicit date
TargetDates == {<<>>, <<1>>, <<2>>}

\* dates chapters are requested for
ChapterDates == {1, 2}

\* days the clock may jump between two operations
ClockSteps == {1, LookbackDays + 1}

NoContext == [news |-> <<>>, weather |-> "unavailable"]

IdleSlot == [pc |-> "idle", date |-> 0, force |-> FALSE, existing |-> FALSE,
             context |-> NoContext, generator |-> "none"]

\* no ingestion call in flight; written holds the rows the call's transaction
\* has inserted or updated and not yet committed, failed tells that the
\* session's transaction was rolled back by an error, returned is what the
\* latest call returned and by which return statement
NotReturned == [via |-> "none", items |-> <<>>]

IdleRun == [pc |-> "idle", rss_content |-> <<>>, articles |-> <<>>, now |-> 0,
            written |-> {}, updated_items |-> <<>>, failed |-> FALSE,
            returned |-> NotReturned]

\* Settings() with its defaults (config.py)
DefaultSettings ==
    [enable_manual_generation |-> TRUE,
     use_llm_for_stories |-> TRUE,
     anthropic_api_key |-> <<>>,
     max_news_items_per_story |-> 1]

\* environments the process may be started in
ModelSettings == [DefaultSettings EXCEPT !.anthropic_api_key = <<"key">>]

\* an API key in the environment while model-backed generation is switched off
KeyOnlySettings == [ModelSettings EXCEPT !.use_llm_for_stories = FALSE]

\* production: generation by the scheduled task only
DisabledSettings ==
    [DefaultSettings EXCEPT !.enable_manual_generation = FALSE,
                            !.use_llm_for_stories = FALSE,
                            !.anthropic_api_key = <<"key">>]

SettingsChoices ==
    { DefaultSettings,
      ModelSettings,
      KeyOnlySettings,
      [DefaultSettings EXCEPT !.use_llm_for_stories = FALSE,
                              !.max_news_items_per_story = MaxNewsItems],
      DisabledSettings }

Init ==
    /\ settings \in SettingsChoices \ {ModelSettings, KeyOnlySettings}
    /\ today = 1
    /\ clock = 0
    /\ news = {}
    /\ nextNewsId = 1
    /\ chapters = {}
    /\ nextChapterId = 1
    /\ gen = [r \in Reqs |-> IdleSlot]
    /\ ingest = [w \in Workers |-> IdleRun]
    /\ response = [outcome |-> "none", date |-> 0, chapter_id |-> {}]

\* ------------------------------------------------------------------ actions
\* the passing of days
AdvanceClock(k) ==
    /\ today + k <= MaxDay
    /\ today' = today + k
    /\ UNCHANGED <<ingest, settings, clock, news, nextNewsId,
                   chapters, nextChapterId, gen, response>>

\* fetch_and_update_ipswich_news as one transaction; fetched is the body
\* _fetch_rss returned, <<>> for a failed fetch or an empty body
Ingest(fetched) ==
    /\ IF fetched = <<>>
       THEN UNCHANGED <<clock, news, nextNewsId>>
       ELSE LET articles == ParsedFeed(fetched, today)
                r == UpsertAll(news, articles, clock + 1, nextNewsId, <<>>)
            IN  /\ clock < MaxRuns
                /\ clock' = clock + 1
                /\ news' = r.view
                /\ nextNewsId' = r.nextId
    /\ UNCHANGED <<ingest, settings, today, chapters, nextChapterId, gen, response>>

\* an ingestion run while no generation request is in flight
IngestBetweenRequests(fetched) ==
    /\ \A r \in Reqs : gen[r].pc = "idle"
    /\ Ingest(fetched)

\* generate_today_story without the test of enable_manual_generation
GenStart_NoConfigCheck(r, target_date, force) ==
    /\ gen[r].pc = "idle"
    /\ (IF target_date # <<>> THEN target_date[1] ELSE today) \in ChapterDates
    /\ LET date == IF target_date # <<>> THEN target_date[1] ELSE today
           existing == {c \in chapters : c.chapter_date = date}
       IN  IF existing # {} /\ ~force
           THEN /\ response' = [outcome |-> "exists", date |-> date,
                                 chapter_id |-> {c.id : c \in existing}]
                /\ UNCHANGED gen
           ELSE /\ gen' = [gen EXCEPT ![r] = [IdleSlot EXCEPT !.pc = "context",
                                !.date = date, !.force = force,
                                !.existing = (existing # {})]]
                /\ UNCHANGED response
    /\ UNCHANGED <<ingest, settings, today, clock, news, nextNewsId,
                   chapters, nextChapterId>>

\* generate_today_story whose existence check never returns early
GenStart_NoEarlyReturn(r, target_date, force) ==
    /\ gen[r].pc = "idle"
    /\ (IF target_date # <<>> THEN target_date[1] ELSE today) \in ChapterDates
    /\ LET date == IF target_date # <<>> THEN target_date[1] ELSE today
           existing == {c \in chapters : c.chapter_date = date}
       IN  IF ~settings.enable_manual_generation
           THEN /\ response' = [outcome |-> "disabled", date |-> date, chapter_id |-> {}]
                /\ UNCHANGED gen
           ELSE /\ gen' = [gen EXCEPT ![r] = [IdleSlot EXCEPT !.pc = "context",
                                !.date = date, !.force = force,
                                !.existing = (existing # {})]]
                /\ UNCHANGED response
    /\ UNCHANGED <<ingest, settings, today, clock, news, nextNewsId,
                   chapters, nextChapterId>>

\* generate_today_story up to the existence check (routes_story.py 200-240)
GenStart(r, target_date, force) ==
    /\ gen[r].pc = "idle"
    /\ (IF target_date # <<>> THEN target_date[1] ELSE today) \in ChapterDates
    /\ LET date == IF target_date # <<>> THEN target_date[1] ELSE today
           existing == {c \in chapters : c.chapter_date = date}
       IN  IF ~settings.enable_manual_generation
           THEN /\ response' = [outcome |-> "disabled", date |-> date, chapter_id |-> {}]
                /\ UNCHANGED gen
           ELSE IF Cardinality(existing) > 1
           THEN /\ response' = [outcome |-> "error", date |-> date, chapter_id |-> {}]
                /\ UNCHANGED gen
           ELSE IF existing # {} /\ ~force
           THEN /\ response' = [outcome |-> "exists", date |-> date,
                                 chapter_id |-> {c.id : c \in existing}]
                /\ UNCHANGED gen
           ELSE /\ gen' = [gen EXCEPT ![r] = [IdleSlot EXCEPT !.pc = "context",
                                !.date = date, !.force = force,
                                !.existing = (existing # {})]]
                /\ UNCHANGED response
    /\ UNCHANGED <<ingest, settings, today, clock, news, nextNewsId,
                   chapters, nextChapterId>>

\* context = await context_builder.build_context(today) and
\* generator = get_story_generator() (routes_story.py 243-247)
GenBuildContext(r) ==
    /\ gen[r].pc = "context"
    /\ \E context \in build_context(news, chapters, today, gen[r].date,
                                    settings.max_news_items_per_story) :
          gen' = [gen EXCEPT ![r].pc = "generate", ![r].context = context,
                             ![r].generator = get_story_generator(settings)]
    /\ UNCHANGED <<ingest, settings, today, clock, news, nextNewsId,
                   chapters, nextChapterId, response>>

\* engine call, commit and response (routes_story.py 248-281) for
\* the context and the force flag handed to the engine
PersistWith(r, context, force_regenerate) ==
    /\ gen[r].pc = "generate"
    /\ \E story \in GeneratorOutputs(gen[r].generator, context) :
          IF story = Raised
          THEN \* no try/except around the engine call: the request fails
               /\ UNCHANGED <<chapters, nextChapterId>>
               /\ response' = [outcome |-> "error", date |-> gen[r].date, chapter_id |-> {}]
          ELSE
          LET w == generate_story_for_date(chapters, context, gen[r].date,
                                           force_regenerate, story, nextChapterId)
          IN  /\ chapters' = w.rows
              /\ nextChapterId' = w.nextId
              /\ response' =
                    IF w.raised
                    THEN [outcome |-> "error", date |-> gen[r].date, chapter_id |-> {}]
                    ELSE [outcome |-> IF gen[r].existing THEN "regenerated" ELSE "generated",
                          date |-> gen[r].date, chapter_id |-> {c.id : c \in w.chapter}]
    /\ gen' = [gen EXCEPT ![r] = IdleSlot]
    /\ UNCHANGED <<ingest, settings, today, clock, news, nextNewsId>>

\* the engine call without force_regenerate=force
GenPersist_DropsForce(r) == PersistWith(r, gen[r].context, FALSE)

\* the engine call with the news of the stored chapter instead of the context's
GenPersist_StaleNews(r) ==
    LET stored == {c \in chapters : c.chapter_date = gen[r].date}
    IN  PersistWith(r, IF stored = {} THEN gen[r].context
                       ELSE [gen[r].context EXCEPT
                               !.news = (CHOOSE c \in stored : TRUE).used_news_item_ids],
                    gen[r].force)

\* routes_story.py 246-281: engine.generate_story_for_date(context=context,
\* target_date=today, force_regenerate=force), commit, response
GenPersist(r) == PersistWith(r, gen[r].context, gen[r].force)

\* the rows the session of worker w reads: the committed rows, overlaid by
\* the rows its own transaction has written
View(w) ==
    {n \in news : n.id \notin {m.id : m \in ingest[w].written}} \cup ingest[w].written

\* fetch_and_update_ipswich_news up to the loop without the early return:
\* an empty body goes on to the parse and the loop like any other
IngestBegin_NoEarlyReturn(w, fetched) ==
    /\ ingest[w].pc = "idle"
    /\ clock < MaxRuns
    /\ clock' = clock + 1
    /\ ingest' = [ingest EXCEPT ![w] =
           [IdleRun EXCEPT !.pc = "upsert", !.rss_content = fetched,
                           !.articles = _parse_rss_feed(fetched, today),
                           !.now = clock + 1]]
    /\ UNCHANGED <<settings, today, news, nextNewsId, chapters, nextChapterId, gen, response>>

\* fetch_and_update_ipswich_news up to the loop (news_service.py 43-50):
\* fetch, early return on an empty body, parse
IngestBegin(w, fetched) ==
    /\ ingest[w].pc = "idle"
    /\ IF fetched = <<>>
       THEN /\ ingest' = [ingest EXCEPT ![w] =
                   [IdleRun EXCEPT !.returned = [via |-> "no_content", items |-> <<>>]]]
            /\ UNCHANGED clock
       ELSE /\ clock < MaxRuns
            /\ clock' = clock + 1
            /\ ingest' = [ingest EXCEPT ![w] =
                   [IdleRun EXCEPT !.pc = "upsert", !.rss_content = fetched,
                                   !.articles = _parse_rss_feed(fetched, today),
                                   !.now = clock + 1]]
    /\ UNCHANGED <<settings, today, news, nextNewsId, chapters, nextChapterId, gen, response>>

\* one iteration of the loop (news_service.py 52-56): _upsert_news_item on
\* the rows this session sees; the insert or update stays in its transaction
IngestUpsert(w) ==
    /\ ingest[w].pc = "upsert"
    /\ ingest[w].articles # <<>>
    /\ IF ingest[w].failed
       THEN \* the session refuses every statement until rollback(): the
            \* except clause of _upsert_news_item returns None
            /\ ingest' = [ingest EXCEPT ![w].articles = Tail(@)]
            /\ UNCHANGED nextNewsId
       ELSE LET r == _upsert_news_item(View(w), Head(ingest[w].articles), ingest[w].now,
                                       nextNewsId)
                touched == r.view \ View(w)
            IN  /\ nextNewsId' = r.nextId
                /\ ingest' = [ingest EXCEPT
                       ![w].articles = Tail(@),
                       ![w].written = {m \in @ : m.id \notin {t.id : t \in touched}}
                                      \cup touched,
                       ![w].updated_items = @ \o r.ret]
    /\ UNCHANGED <<settings, today, clock, news, chapters, nextChapterId, gen, response>>

\* one iteration of the loop in which the database raises on the statement
\* of _upsert_news_item (news_service.py 323-350): the except clause of
\* lines 353-355 returns None without a rollback(), the failed statement has
\* ended the session's transaction and the rows written so far with it
IngestUpsertError(w) ==
    /\ ingest[w].pc = "upsert"
    /\ ingest[w].articles # <<>>
    /\ ~ingest[w].failed
    /\ ingest' = [ingest EXCEPT ![w].articles = Tail(@),
                                ![w].written = {},
                                ![w].failed = TRUE]
    /\ UNCHANGED <<settings, today, clock, news, nextNewsId, chapters, nextChapterId, gen,
                   response>>

\* await self.db.commit() and the return (news_service.py 59-64): the
\* written rows become the committed ones
IngestCommit(w) ==
    /\ ingest[w].pc = "upsert"
    /\ ingest[w].articles = <<>>
    /\ IF ingest[w].failed
       THEN \* commit() raises, the outer except rolls back and returns []
            /\ UNCHANGED news
            /\ ingest' = [ingest EXCEPT ![w] =
                   [IdleRun EXCEPT !.returned = [via |-> "rolled_back", items |-> <<>>]]]
       ELSE /\ news' = View(w)
            /\ ingest' = [ingest EXCEPT ![w] =
                   [IdleRun EXCEPT !.returned = [via |-> "committed",
                                                 items |-> ingest[w].updated_items]]]
    /\ UNCHANGED <<settings, today, clock, nextNewsId, chapters, nextChapterId, gen, response>>

\* the handlers one at a time: ingestion runs between generation requests,
\* days pass at any step
Next ==
    \/ \E k \in ClockSteps : AdvanceClock(k)
    \/ \E fetched \in Feeds \cup {<<>>} : IngestBetweenRequests(fetched)
    \/ \E target_date \in TargetDates, force \in BOOLEAN : GenStart(1, target_date, force)
    \/ GenBuildContext(1)
    \/ GenPersist(1)

Spec == Init /\ [][Next]_vars

\* generation requests in flight at the same time, within one day
NextRace ==
    \/ \E r \in Reqs, target_date \in TargetDates, force \in BOOLEAN : GenStart(r, target_date, force)
    \/ \E r \in Reqs : GenBuildContext(r)
    \/ \E r \in Reqs : GenPersist(r)

\* the news store after one ingestion run on the first day
IngestedOnce ==
    {UpsertAll({}, ParsedFeed(f, 1), 1, 1, <<>>) : f \in Feeds}

InitRace ==
    /\ settings \in SettingsChoices
    /\ today = 1
    /\ clock = 1
    /\ \E r \in IngestedOnce : news = r.view /\ nextNewsId = r.nextId
    /\ chapters = {}
    /\ nextChapterId = 1
    /\ gen = [r \in Reqs |-> IdleSlot]
    /\ ingest = [w \in Workers |-> IdleRun]
    /\ response = [outcome |-> "none", date |-> 0, chapter_id |-> {}]

SpecRace == InitRace /\ [][NextRace]_vars

\* ingestion calls in flight at the same time, within one day, with
\* statements the database fails
NextIngest ==
    \/ \E w \in Workers, fetched \in Feeds \cup {<<>>} : IngestBegin(w, fetched)
    \/ \E w \in Workers : IngestUpsert(w)
    \/ \E w \in Workers : IngestUpsertError(w)
    \/ \E w \in Workers : IngestCommit(w)

InitIngest ==
    /\ settings = DefaultSettings
    /\ today = 1
    /\ clock = 0
    /\ news = {}
    /\ nextNewsId = 1
    /\ chapters = {}
    /\ nextChapterId = 1
    /\ gen = [r \in Reqs |-> IdleSlot]
    /\ ingest = [w \in Workers |-> IdleRun]
    /\ response = [outcome |-> "none", date |-> 0, chapter_id |-> {}]

SpecIngest == InitIngest /\ [][NextIngest]_vars

\* one ingestion call at a time, step by step, over the days
NextIngestSeq ==
    \/ \E k \in ClockSteps : AdvanceClock(k)
    \/ \E fetched \in Feeds \cup {<<>>} : IngestBegin(1, fetched)
    \/ IngestUpsert(1)
    \/ IngestCommit(1)

SpecIngestSeq == InitIngest /\ [][NextIngestSeq]_vars

\* the fetch-and-parse step of one ingestion call, on any day and document
NextFilter ==
    /\ ingest[1].pc = "idle"
    /\ \E fetched \in FilterFeeds : IngestBegin(1, fetched)

InitFilter ==
    /\ settings = DefaultSettings
    /\ today \in 1..MaxDay
    /\ clock = 0
    /\ news = {}
    /\ nextNewsId = 1
    /\ chapters = {}
    /\ nextChapterId = 1
    /\ gen = [r \in Reqs |-> IdleSlot]
    /\ ingest = [w \in Workers |-> IdleRun]
    /\ response = [outcome |-> "none", date |-> 0, chapter_id |-> {}]

SpecFilter == InitFilter /\ [][NextFilter]_vars

\* the service with manual generation disabled: the chapters in the store
\* were written by the scheduled task, which calls the engine directly
ScheduledChapters(newsRows) ==
    {{}} \cup
    UNION {UNION {{generate_story_for_date({}, context, d, FALSE, story, 1).rows :
                     story \in GeneratorOutputs(get_story_generator(DisabledSettings), context)} :
                  context \in build_context(newsRows, {}, 1, d,
                                            DisabledSettings.max_news_items_per_story)} :
           d \in ChapterDates}

InitDisabled ==
    /\ settings = DisabledSettings
    /\ today = 1
    /\ clock = 1
    /\ \E r \in IngestedOnce :
          /\ news = r.view /\ nextNewsId = r.nextId
          /\ chapters \in ScheduledChapters(r.view)
    /\ nextChapterId = Cardinality(chapters) + 1
    /\ gen = [r \in Reqs |-> IdleSlot]
    /\ ingest = [w \in Workers |-> IdleRun]
    /\ response = [outcome |-> "none", date |-> 0, chapter_id |-> {}]

NextDisabled ==
    \/ \E k \in ClockSteps : AdvanceClock(k)
    \/ \E r \in Reqs, target_date \in TargetDates, force \in BOOLEAN :
          GenStart(r, target_date, force)

SpecDisabled == InitDisabled /\ [][NextDisabled]_vars

\* one request at a time over the news of one ingestion run, days passing
InitRegen ==
    /\ settings \in {cfg \in SettingsChoices :
                       cfg.enable_manual_generation /\ cfg.anthropic_api_key = <<>>}
    /\ today = 1
    /\ clock = 1
    /\ \E r \in IngestedOnce : news = r.view /\ nextNewsId = r.nextId
    /\ chapters = {}
    /\ nextChapterId = 1
    /\ gen = [r \in Reqs |-> IdleSlot]
    /\ ingest = [w \in Workers |-> IdleRun]
    /\ response = [outcome |-> "none", date |-> 0, chapter_id |-> {}]

NextRegen ==
    \/ \E k \in ClockSteps : AdvanceClock(k)
    \/ \E target_date \in TargetDates, force \in BOOLEAN : GenStart(1, target_date, force)
    \/ GenBuildContext(1)
    \/ GenPersist(1)

SpecRegen == InitRegen /\ [][NextRegen]_vars

\* one request at a time, every request with force=false
NextNoForce ==
    \/ \E k \in ClockSteps : AdvanceClock(k)
    \/ \E fetched \in Feeds \cup {<<>>} : IngestBetweenRequests(fetched)
    \/ \E target_date \in TargetDates : GenStart(1, target_date, FALSE)
    \/ GenBuildContext(1)
    \/ GenPersist(1)

SpecNoForce == Init /\ [][NextNoForce]_vars

\* ------------------------------------------------------------- properties
ChaptersOn(rows, d) == {c \in rows : c.chapter_date = d}

UsedIds(c) == {c.used_news_item_ids[i] : i \in 1..Len(c.used_news_item_ids)}

Elems(seq) == {seq[i] : i \in 1..Len(seq)}

\* the date a GenStart with this target_date parameter works on
DateFor(target_date) == IF target_date # <<>> THEN target_date[1] ELSE today

\* C1: whatever generate_today_story calls have run, for whatever dates and
\* force values, one after the other or interleaved, story_chapters holds at
\* most one row per chapter_date.
C1_OneChapterPerDate ==
    \A c1, c2 \in chapters : c1.chapter_date = c2.chapter_date => c1 = c2

\* C1 witness: a request lost the race for a date that now has its chapter,
\* and a second date has a chapter too
C1_Witness ==
    /\ response.outcome = "error"
    /\ ChaptersOn(chapters, response.date) # {}
    /\ Cardinality(chapters) = 2

\* C2: a force=false request that finds no chapter for its date D and runs to
\* the end leaves exactly one chapter dated D; a force=false request for a
\* date that has a chapter answers "already exists" with that chapter's id,
\* adds no row and changes no field of any stored chapter.
C2_CreateOnceThenUnchanged ==
    [][ /\ \A r \in Reqs :
              (GenPersist(r) /\ ~gen[r].force /\ ChaptersOn(chapters, gen[r].date) = {})
              => /\ Cardinality(ChaptersOn(chapters', gen[r].date)) = 1
                 /\ response'.outcome = "generated"
                 /\ response'.chapter_id = {c.id : c \in ChaptersOn(chapters', gen[r].date)}
        /\ \A r \in Reqs, target_date \in TargetDates :
              (/\ GenStart(r, target_date, FALSE)
               /\ settings.enable_manual_generation
               /\ ChaptersOn(chapters, DateFor(target_date)) # {})
              => /\ chapters' = chapters
                 /\ gen' = gen
                 /\ response'.outcome = "exists"
                 /\ response'.date = DateFor(target_date)
                 /\ response'.chapter_id =
                        {c.id : c \in ChaptersOn(chapters, DateFor(target_date))}
      ]_vars

\* C2 witness: the latest request was answered "already exists" with the
\* chapter stored for its date
C2_Witness ==
    /\ response.outcome = "exists"
    /\ \E c \in chapters : c.chapter_date = response.date /\ response.chapter_id = {c.id}

\* C3: a force=true request that reaches the engine while its date D has a
\* chapter replaces that chapter's text, weather and used-news-id list by what
\* this request generated from its own context; afterwards D still has exactly
\* one chapter, with the same id and date, and the chapters of all other
\* dates are as before.
C3_ForceReplacesInPlace ==
    [][ \A r \in Reqs :
          (GenPersist(r) /\ gen[r].force /\ ChaptersOn(chapters, gen[r].date) # {})
          => /\ Cardinality(ChaptersOn(chapters', gen[r].date)) = 1
             /\ \A c \in ChaptersOn(chapters', gen[r].date) :
                   /\ c.used_news_item_ids = gen[r].context.news
                   /\ c.body.news = gen[r].context.news
                   /\ c.weather_summary = gen[r].context.weather
                   /\ c.id \in {o.id : o \in ChaptersOn(chapters, gen[r].date)}
             /\ chapters' \ ChaptersOn(chapters', gen[r].date)
                   = chapters \ ChaptersOn(chapters, gen[r].date)
      ]_vars

\* C3 witness: a chapter was regenerated while another date had its chapter
C3_Witness ==
    /\ response.outcome = "regenerated"
    /\ \E c \in chapters : c.chapter_date = response.date /\ c.id \in response.chapter_id
    /\ \E c \in chapters : c.chapter_date # response.date

\* C4: a force=false request that passed the existence check and reaches the
\* engine after another request has stored the chapter of the same date ends
\* in the "already exists" outcome, and the date keeps its one chapter.
C4_LoserGetsAlreadyExists ==
    [][ \A r \in Reqs :
          (GenPersist(r) /\ ~gen[r].force /\ ChaptersOn(chapters, gen[r].date) # {})
          => /\ response'.outcome = "exists"
             /\ Cardinality(ChaptersOn(chapters', gen[r].date)) = 1
      ]_vars

\* C5: every request that creates or regenerates a chapter stores, as the
\* chapter's used-news-id list, the ids of the news of the context this same
\* request built, in the context's order, and that is the news the generator
\* was given; the list of the version it replaces plays no part.
C5_UsedIdsFromOwnContext ==
    [][ \A r \in Reqs :
          (GenPersist(r) /\ response'.outcome \in {"generated", "regenerated"})
          => \E c \in ChaptersOn(chapters', gen[r].date) :
                /\ response'.chapter_id = {c.id}
                /\ c.used_news_item_ids = gen[r].context.news
                /\ c.body.news = gen[r].context.news
      ]_vars

\* C5 witness: a regenerated chapter that lists news
C5_Witness ==
    /\ response.outcome = "regenerated"
    /\ \E c \in chapters :
          c.chapter_date = response.date /\ c.used_news_item_ids # <<>>


\* a stored record with its fetch timestamp blanked
Content(n) == [n EXCEPT !.fetched_at = 0]

\* C6: after an ingestion run over a feed, a second run over the same feed on
\* the same day returns the same set of record ids, takes no new id, keeps the
\* set of stored ids, and leaves every stored record as it was except for a
\* fetch timestamp that does not go back and is the second run's for every
\* record the run saw.
C6_SecondRunChangesOnlyFetchedAt ==
    [][ \A f \in Feeds :
          Ingest(f)
          => LET first == UpsertAll(news, ParsedFeed(f, today), clock + 1, nextNewsId, <<>>)
                 second == UpsertAll(news', ParsedFeed(f, today'), clock' + 1, nextNewsId', <<>>)
             IN  /\ Elems(second.updated_items) = Elems(first.updated_items)
                 /\ second.nextId = nextNewsId'
                 /\ {n.id : n \in second.view} = {n.id : n \in news'}
                 /\ \A n \in news' :
                       \E m \in second.view :
                          /\ m.id = n.id
                          /\ Content(m) = Content(n)
                          /\ m.fetched_at >= n.fetched_at
                 /\ \A m \in second.view :
                       m.id \in Elems(second.updated_items) => m.fetched_at = clock' + 1
      ]_vars

\* C6 witness: the store is what two runs over one feed leave behind, with two
\* records, both stamped by the second run
C6_Witness ==
    /\ clock = 2
    /\ Cardinality(news) = 2
    /\ \A n \in news : n.fetched_at = 2
    /\ \E f \in Feeds :
          LET first == UpsertAll({}, ParsedFeed(f, today), 1, 1, <<>>)
              second == UpsertAll(first.view, ParsedFeed(f, today), 2, first.nextId, <<>>)
          IN  news = second.view /\ nextNewsId = second.nextId

\* C7: whatever ingestion runs have committed, also runs that interleaved
\* (both looked a URL up before either inserted it), no two stored news
\* records share a source URL.
C7_OneRecordPerUrl ==
    \A a, b \in news : a.article_url = b.article_url => a = b

\* limits get_news_for_date is asked with
Limits == {1, PrefetchLimit}

\* C8: for every target date T and limit, whatever the current day,
\* get_news_for_date(T, limit) returns no record whose id is in the
\* used-news-id list of a chapter dated within the 7 days ending at T.
C8_NoRecentlyUsedReturned ==
    \A T \in ChapterDates, limit \in Limits :
       \A items \in get_news_for_date(news, chapters, today, T, limit) :
          \A c \in chapters :
             c.chapter_date \in (T - LookbackDays + 1)..T
             => Elems(IdsOf(items)) \cap UsedIds(c) = {}

\* C9: when a force=false request stores the chapter of date D+1 while the
\* chapter of date D is already stored, the used-news-id lists of the two
\* chapters have no id in common.
C9_ConsecutiveDaysDisjoint ==
    [][ (GenPersist(1) /\ ~gen[1].force /\ ChaptersOn(chapters, gen[1].date) = {})
        => \A c \in ChaptersOn(chapters', gen[1].date),
              p \in ChaptersOn(chapters, gen[1].date - 1) :
              UsedIds(c) \cap UsedIds(p) = {}
      ]_vars

\* the date in a record's link
LinkDate(n) == _get_article_date_from_url(n.article_url)

\* the date ingestion derives: the date in the link, else the stored publish date
CanonicalDate(n) ==
    IF LinkDate(n) # {} THEN LinkDate(n)
    ELSE IF n.published_at # <<>> THEN {DateOf(n.published_at[1])}
    ELSE {}

\* C10: every record get_news_for_date(T, limit) returns has a canonical
\* date (link date, else stored publish date) of T or T-1, and every stored
\* record with such a canonical date that is not recently used is returned
\* when the limit does not cut the list (the store is within the prefetch).
C10_CanonicalDateWindow ==
    \A T \in ChapterDates, limit \in Limits :
       LET results == get_news_for_date(news, chapters, today, T, limit)
           used_ids == _get_recently_used_news_ids(chapters, today)
       IN  /\ \A items \in results : \A i \in 1..Len(items) :
                 CanonicalDate(items[i]) \cap {T, T - 1} # {}
           /\ limit = PrefetchLimit
              => \A n \in news :
                    (CanonicalDate(n) \cap {T, T - 1} # {} /\ n.id \notin used_ids)
                    => \A items \in results : n \in Elems(items)

\* C10 amended: every record get_news_for_date(T, limit) returns has a link
\* date of T or T-1 (a record without a link date is never returned), and
\* every stored record with such a link date that is not recently used is
\* returned when the limit does not cut the list.
C10_LinkDateWindow ==
    \A T \in ChapterDates, limit \in Limits :
       LET results == get_news_for_date(news, chapters, today, T, limit)
           used_ids == _get_recently_used_news_ids(chapters, today)
       IN  /\ \A items \in results : \A i \in 1..Len(items) :
                 LinkDate(items[i]) \cap {T, T - 1} # {}
           /\ limit = PrefetchLimit
              => \A n \in news :
                    (LinkDate(n) \cap {T, T - 1} # {} /\ n.id \notin used_ids)
                    => \A items \in results : n \in Elems(items)

\* C10 witness: a context built for date T holds a record whose link date is
\* T-1 while the store has a record without a link date published on T
C10_Witness ==
    /\ gen[1].pc = "generate"
    /\ \E m \in news : m.id \in Elems(gen[1].context.news)
                        /\ LinkDate(m) = {gen[1].date - 1}
    /\ \E n \in news : /\ LinkDate(n) = {}
                        /\ n.published_at # <<>>
                        /\ DateOf(n.published_at[1]) = gen[1].date

\* limits get_news_for_date may be called with: limit is an int parameter
\* and max_news_items_per_story an unvalidated int setting
AnyLimits == {0, 1, MaxNewsItems, PrefetchLimit}

\* the rows of all_items that pass the two tests of get_news_for_date
Eligible(all_items, used_ids, target_date) ==
    SelectSeq(all_items,
              LAMBDA n : /\ n.id \notin used_ids
                         /\ LinkDate(n) \cap {target_date, target_date - 1} # {})

\* C11: for every target date T and limit, get_news_for_date(T, limit)
\* returns the first `limit` rows (all, if fewer) of the prefetched rows, in
\* publish-time-descending order, that are in the date window and not
\* recently used; the result never has more than `limit` entries.
C11_FirstLimitEligible ==
    \A T \in ChapterDates, limit \in AnyLimits :
       LET used_ids == _get_recently_used_news_ids(chapters, today)
       IN  \A all_items \in PrefetchOrders(news) :
              LET result == MatchingItems(all_items, used_ids, T, limit, <<>>)
              IN  /\ result = Prefix(Eligible(all_items, used_ids, T), limit)
                  /\ Len(result) <= limit

\* ---------------------------------------------- properties of the filter
\* the document worker 1 fetched and the candidates the filter made of it
\* (under SpecFilter the call stops after the parse)
Doc == ingest[1].rss_content

Out == ingest[1].articles

Parsed == ingest[1].pc = "upsert"

\* the items of the document a candidate can have been made of
Sources(a) ==
    {j \in 1..Len(Doc) :
        /\ Doc[j].link = <<a.article_url>>
        /\ a.headline = Prefix(Doc[j].title, HeadlineMax)
        /\ a.author = Prefix(Doc[j].creator, AuthorMax)}

\* the locale name is one of the category tags or occurs in the title,
\* whatever the case of the letters
RefersToLocale(item) ==
    \/ \E i \in 1..Len(item.categories) : Lower(item.categories[i]) = ipswich
    \/ Contains(ipswich, Lower(item.title))

\* C12: every candidate the filter emits was made of an item of the document
\* that names the locale among its category tags or in its title (case
\* ignored); an item naming it in neither place yields no candidate.
C12_LocaleRequired ==
    Parsed => \A i \in 1..Len(Out) :
                 /\ Sources(Out[i]) # {}
                 /\ \A j \in Sources(Out[i]) : RefersToLocale(Doc[j])

\* C12 witness: a document of two fresh items with links, one not naming the
\* locale (or naming it only inside a longer tag), of which one candidate
\* was made
C12_Witness ==
    /\ Parsed
    /\ Len(Doc) = 2 /\ Len(Out) = 1
    /\ \E j \in 1..2 :
          /\ ~RefersToLocale(Doc[j])
          /\ Doc[j].link # <<>>
          /\ DerivePublishedAt(Doc[j].link, Doc[j].pubDate) = <<Noon(today)>>
          /\ \E i \in 1..Len(Doc[j].categories) :
                Contains(ipswich, Lower(Doc[j].categories[i]))

\* the title contains a sensitive keyword or a category tag is an excluded
\* category, whatever the case of the letters
MatchesExclusion(item) ==
    \/ \E k \in 1..Len(skip_keywords) : Contains(skip_keywords[k], Lower(item.title))
    \/ \E k \in 1..Len(skip_categories), i \in 1..Len(item.categories) :
          Lower(item.categories[i]) = skip_categories[k]

\* C13: no candidate the filter emits was made of an item whose title
\* contains a sensitive keyword or whose tags include an excluded category:
\* such an item is rejected also when it names the locale, has a link and is
\* fresh.
C13_ExclusionsRejected ==
    Parsed => \A i \in 1..Len(Out) :
                 \A j \in Sources(Out[i]) : ~MatchesExclusion(Doc[j])

\* C13 witness: a document of two locale-relevant, linked, fresh items, one
\* with a keyword in its title and one in an excluded category, and no
\* candidate
C13_Witness ==
    /\ Parsed
    /\ Len(Doc) = 2 /\ Out = <<>>
    /\ \A j \in 1..2 :
          /\ RefersToLocale(Doc[j])
          /\ Doc[j].link # <<>>
          /\ DerivePublishedAt(Doc[j].link, Doc[j].pubDate) = <<Noon(today)>>
    /\ \E k \in 1..Len(skip_keywords) : Contains(skip_keywords[k], Lower(Doc[1].title))
    /\ \E k \in 1..Len(skip_categories) : InList(skip_categories[k], LowerAll(Doc[2].categories))

\* the date the claim derives for an item: the date in the link when that is
\* a date, else the date of the feed's pubDate when that parses, else none
ExpectedDate(item) ==
    LET in_link == IF item.link = <<>> \/ item.link[1].seg = <<>> THEN {}
                   ELSE {item.link[1].seg[1]} \cap ValidDays
    IN  IF in_link # {} THEN in_link
        ELSE IF item.pubDate # <<>> /\ item.pubDate[1].ok
        THEN {item.pubDate[1].at \div 24}
        ELSE {}

\* C14: the publish date of every candidate is the date in the link of its
\* item when that is a valid date, whatever the pubDate says, and the date
\* of the pubDate otherwise; an item with neither yields no candidate.
C14_LinkDateWins ==
    Parsed => \A i \in 1..Len(Out) :
                 \A j \in Sources(Out[i]) :
                    /\ Out[i].published_at # <<>>
                    /\ {DateOf(Out[i].published_at[1])} = ExpectedDate(Doc[j])

\* C14 witness: two candidates, one of an item whose link date differs from
\* its pubDate, one of an item whose link segment is no date
C14_Witness ==
    /\ Parsed
    /\ Len(Out) = 2
    /\ \E j \in Sources(Out[1]) :
          /\ Doc[j].link[1].seg # <<>>
          /\ ExpectedDate(Doc[j]) = {Doc[j].link[1].seg[1]}
          /\ Doc[j].pubDate # <<>> /\ Doc[j].pubDate[1].ok
          /\ Doc[j].pubDate[1].at \div 24 # Doc[j].link[1].seg[1]
    /\ \E j \in Sources(Out[2]) :
          /\ Doc[j].link[1].seg # <<>>
          /\ Doc[j].link[1].seg[1] \notin ValidDays

\* C15: every candidate of a feed pass has a publish date of today or of the
\* day before.
C15_TodayOrYesterday ==
    Parsed => \A i \in 1..Len(Out) :
                 /\ Out[i].published_at # <<>>
                 /\ DateOf(Out[i].published_at[1]) \in {today - 1, today}

\* C16: a feed pass emits at most 10 candidates, most recent first, and no
\* accepted item left out is more recent than one emitted, in whatever
\* order the document lists its items.
C16_MostRecentFirst ==
    Parsed => LET accepted == ParseItems(Doc, today)
              IN  /\ Len(Out) <= FeedCap
                  /\ \A i, k \in 1..Len(Out) :
                        i < k => Out[i].published_at[1] >= Out[k].published_at[1]
                  /\ \A k \in 1..Len(accepted) :
                        \/ \E i \in 1..Len(Out) : Out[i] = accepted[k]
                        \/ \A i \in 1..Len(Out) :
                              Out[i].published_at[1] >= accepted[k].published_at[1]

\* C17: every candidate of a feed pass carries the link of an item of the
\* document, and no two candidates of the pass share a source URL.
C17_UniqueUrls ==
    Parsed => /\ \A i \in 1..Len(Out) : \E j \in 1..Len(Doc) : Doc[j].link = <<Out[i].article_url>>
              /\ \A i, k \in 1..Len(Out) :
                    i # k => Out[i].article_url # Out[k].article_url

\* ------------------------------------------- properties of the ingestion
\* a step of the loop of worker 1 on a candidate whose source URL the
\* session already holds once
Resighting ==
    /\ ingest[1].pc = "upsert"
    /\ ingest[1].articles # <<>>
    /\ ~ingest[1].failed
    /\ ingest'[1].articles = Tail(ingest[1].articles)
    /\ Cardinality(LookupByUrl(View(1), Head(ingest[1].articles).article_url)) = 1

\* what the step made of the record: identity kept, no second record,
\* fields refreshed; the author as the parameter says
Refreshed(author_after(_, _)) ==
    LET article_data == Head(ingest[1].articles)
        existing == CHOOSE n \in LookupByUrl(View(1), article_data.article_url) : TRUE
        after == LookupByUrl(View(1)', article_data.article_url)
    IN  /\ Cardinality(after) = 1
        /\ Cardinality(View(1)') = Cardinality(View(1))
        /\ nextNewsId' = nextNewsId
        /\ \A n \in after :
              /\ n.id = existing.id
              /\ n.headline = article_data.headline
              /\ n.summary = article_data.summary
              /\ n.published_at = article_data.published_at
              /\ n.author = author_after(existing, article_data)
              /\ n.fetched_at = ingest[1].now
        /\ ingest'[1].updated_items = ingest[1].updated_items \o <<existing.id>>

\* C18 as stated: on a later sighting of a source URL the record keeps its
\* identity, its headline, summary, author and publish time all become the
\* candidate's, also when the candidate has no author, its fetch timestamp
\* is bumped, and no second record is created.
C18_SightingOverwritesAll ==
    [][Resighting => Refreshed(LAMBDA existing, article_data : article_data.author)]_vars

\* C18 amended: as above, but the author becomes the candidate's only when
\* the candidate has one; a candidate without author leaves the stored
\* author as it was.
C18_SightingKeepsAuthor ==
    [][Resighting =>
         Refreshed(LAMBDA existing, article_data :
                      IF article_data.author # <<>> THEN article_data.author
                      ELSE existing.author)]_vars

\* C18 witness: the session holds a committed record again, with a later
\* fetch time, another headline taken from an item without author, and
\* the author it had
C18_Witness ==
    /\ ingest[1].pc = "upsert"
    /\ \E n \in ingest[1].written, o \in news :
          /\ n.id = o.id
          /\ n.fetched_at > o.fetched_at
          /\ n.headline # o.headline
          /\ n.author = o.author /\ n.author # <<>>
          /\ \E j \in 1..Len(Doc) :
                /\ Doc[j].creator = <<>>
                /\ Doc[j].link = <<n.article_url>>
                /\ n.headline = Prefix(Doc[j].title, HeadlineMax)

\* a call of worker 1 whose fetch brought no document
FetchFailed ==
    /\ ingest[1].pc = "idle"
    /\ ingest' # ingest
    /\ ingest'[1].rss_content = <<>>

\* C19: when the fetch of the feed fails (HTTP error, timeout, empty body)
\* the ingestion call returns an empty list, not through an exception, and
\* the news records and all their fields are as before.
C19_FailedFetchChangesNothing ==
    [][FetchFailed =>
         /\ ingest'[1].pc = "idle"
         /\ ingest'[1].returned = [via |-> "no_content", items |-> <<>>]
         /\ ingest'[1].written = {}
         /\ news' = news
         /\ nextNewsId' = nextNewsId]_vars

\* C19 witness: a call has returned on a failed fetch with records of an
\* earlier call in the store
C19_Witness ==
    /\ ingest[1].pc = "idle"
    /\ ingest[1].returned = [via |-> "no_content", items |-> <<>>]
    /\ news # {}

\* C20: a failure confined to one item of a batch (no link, no derivable
\* date, an error while upserting it) drops that item only: a step of the
\* loop never takes a record upserted earlier in the batch out of the
\* transaction or out of the list to return, and the call ends with every
\* upserted record stored and returned.
C20_ItemFailureDropsOnlyItem ==
    [][\A w \in Workers :
          /\ (ingest[w].pc = "upsert" /\ ingest'[w].pc = "upsert") =>
                /\ {m.id : m \in ingest[w].written} \subseteq {m.id : m \in ingest'[w].written}
                /\ Len(ingest'[w].updated_items) >= Len(ingest[w].updated_items)
                /\ Prefix(ingest'[w].updated_items, Len(ingest[w].updated_items))
                      = ingest[w].updated_items
          /\ (ingest[w].pc = "upsert" /\ ingest'[w].pc = "idle") =>
                /\ ingest[w].written \subseteq news'
                /\ ingest'[w].returned.items = ingest[w].updated_items]_vars

\* ------------------------------------------ properties of the generator
\* C21: a request that reaches the engine for a date with no chapter ends
\* in the "generated" outcome with one chapter stored for the date, whose
\* text is the model's or, when the model provider failed (error, timeout,
\* malformed response), the template's; the failure does not reach the
\* caller.
C21_ProviderFailureStillCreates ==
    [][ \A r \in Reqs :
          (GenPersist(r) /\ ChaptersOn(chapters, gen[r].date) = {})
          => /\ response'.outcome = "generated"
             /\ response'.date = gen[r].date
             /\ \E c \in ChaptersOn(chapters', gen[r].date) :
                   /\ ChaptersOn(chapters', gen[r].date) = {c}
                   /\ response'.chapter_id = {c.id}
                   /\ c.body.by \in {"llm", "template"}
      ]_vars

\* C21 witness: with the wrapped primary selected, a chapter was created
\* whose text is the template's: the provider failed and the fallback ran
C21_Witness ==
    /\ get_story_generator(settings) = "LLMStoryGeneratorWithFallback"
    /\ response.outcome = "generated"
    /\ \E c \in chapters :
          /\ response.chapter_id = {c.id}
          /\ c.chapter_date = response.date
          /\ c.body.by = "template"

\* C22: the generator a request hands to the engine is the fallback-wrapped
\* primary exactly when an API key is configured and the flag for
\* model-backed generation is set; in every other configuration it is the
\* bare template generator.
C22_GeneratorSelection ==
    \A r \in Reqs :
       gen[r].pc = "generate" =>
          /\ gen[r].generator \in {"LLMStoryGeneratorWithFallback", "TemplateStoryGenerator"}
          /\ gen[r].generator = "LLMStoryGeneratorWithFallback"
                <=> (settings.anthropic_api_key # <<>> /\ settings.use_llm_for_stories)

\* C22 witness: one request holds the wrapped primary while the flag and
\* the key are set
C22_Witness ==
    /\ settings.use_llm_for_stories
    /\ settings.anthropic_api_key # <<>>
    /\ \E r \in Reqs :
          gen[r].pc = "generate" /\ gen[r].generator = "LLMStoryGeneratorWithFallback"

\* C23: with manual generation disabled, a generation request for any date
\* and force value is answered "disabled", an outcome that is neither
\* "already exists" nor an error and carries no chapter; the request goes no
\* further, and no chapter is created or changed.
C23_DisabledRejects ==
    [][ \A r \in Reqs, target_date \in TargetDates, force \in BOOLEAN :
          (GenStart(r, target_date, force) /\ ~settings.enable_manual_generation)
          => /\ response'.outcome = "disabled"
             /\ response'.outcome \notin {"exists", "error", "generated", "regenerated"}
             /\ response'.date = DateFor(target_date)
             /\ response'.chapter_id = {}
             /\ gen' = gen
             /\ chapters' = chapters
             /\ nextChapterId' = nextChapterId
      ]_vars

\* C23 witness: a request for a date that has its chapter was rejected as
\* disabled
C23_Witness ==
    /\ ~settings.enable_manual_generation
    /\ response.outcome = "disabled"
    /\ ChaptersOn(chapters, response.date) # {}

\* --------------------------------------- properties of the regeneration
\* request 1 regenerates: force is set, its date has a chapter and lies
\* within the lookback window of the current date
Regenerating ==
    /\ gen[1].force
    /\ ChaptersOn(chapters, gen[1].date) # {}
    /\ gen[1].date >= today - LookbackDays

\* ids listed by the stored chapter of the date request 1 works on
ReplacedIds == UNION {UsedIds(c) : c \in ChaptersOn(chapters, gen[1].date)}

\* C24: on a forced regeneration for a date within the lookback window the
\* ids listed by the chapter being replaced count as recently used: the
\* context built for the regeneration holds none of them, it is empty when
\* every record of the date's window is listed by the replaced chapter, and
\* the list of the regenerated chapter is disjoint from the replaced list.
C24_RegenerationAvoidsReplacedNews ==
    [][ /\ (GenBuildContext(1) /\ Regenerating)
             => /\ Elems(gen'[1].context.news) \cap ReplacedIds = {}
                /\ (\A n \in news :
                       LinkDate(n) \cap {gen[1].date, gen[1].date - 1} # {}
                       => n.id \in ReplacedIds)
                   => gen'[1].context.news = <<>>
        /\ (GenPersist(1) /\ Regenerating)
             => /\ response'.outcome = "regenerated"
                /\ \A c \in ChaptersOn(chapters', gen[1].date) :
                      UsedIds(c) \cap ReplacedIds = {}
      ]_vars

\* C24 witness: a forced request has built its context with a record while
\* the chapter it is about to replace lists another
C24_Witness ==
    /\ gen[1].pc = "generate"
    /\ Regenerating
    /\ ReplacedIds # {}
    /\ gen[1].context.news # <<>>

\* ------------------------------------------- properties of the news store
\* C25: no ingestion or generation step deletes a news record or changes
\* the id or the source URL of one, so the stored ids only grow, and every
\* id in the used-news-id list of a stored chapter is the id of a stored
\* record.
C25_NewsRecordsPersist ==
    [][ /\ \A n \in news : \E m \in news' : m.id = n.id /\ m.article_url = n.article_url
        /\ \A c \in chapters' : UsedIds(c) \subseteq {m.id : m \in news'}
      ]_vars

\* C25 witness: a record listed by a chapter was sighted again by a later
\* ingestion run, next to another record
C25_Witness ==
    /\ Cardinality(news) >= 2
    /\ \E c \in chapters, n \in news :
          /\ n.id \in UsedIds(c)
          /\ n.fetched_at >= 2

====
